---- MODULE Spec2Model ----
(***************************************************************************)
(* Diff-aware CSV export / versioning engine of the shift application      *)
(* (src/src/backend/services/sync-service.ts) together with the job ledger *)
(* it writes (sync_jobs, sync_job_items).                                  *)
(*                                                                         *)
(* Each request is a process whose program counter stops at the awaits of  *)
(* the TypeScript code; one action is the synchronous code between two     *)
(* awaits.  The data layer (submissions, employees) is an input: every     *)
(* read of it draws a value from a bounded set.                            *)
(***************************************************************************)
EXTENDS Integers, Sequences, FiniteSets, TLC

(***************************************************************************)
(* Bounds of the model.                                                    *)
(***************************************************************************)
NumSubs == 2        \* submissions a month can hold
NumMonths == 1      \* months that are exported
MaxVersion == 2     \* exports stop being started for a dataset at this version
MaxJobs == 2        \* sync_jobs rows that can be created
MaxClock == 1       \* Date.now() ranges over 0..MaxClock

Procs == {1, 2}

\* `null` of a string-valued column or field (memo, department, errorMessage).
Null == "<null>"
\* `null` of an object-valued field (latestFilePath, artifact).
NullRef == [null |-> TRUE]

\* A yearMonth "YYYY-MM" is kept as its two parts, so that
\* yearMonth.replace("-", "") can be computed.
Pad2(s) == IF Len(s) < 2 THEN "0" \o s ELSE s
MonthSeq == [ i \in 1..NumMonths |-> << "2026", Pad2(ToString(2 + i)) >> ]
Months == { MonthSeq[i] : i \in 1..Len(MonthSeq) }
YearMonth(m) == m[1] \o "-" \o m[2]

\* baseDir of a month's dataset and of the employee dataset, relative to
\* process.cwd().
MonthDir(ym) == "storage/csv/" \o ym
EmployeesDir == "storage/csv/employees"
Datasets == { MonthDir(YearMonth(m)) : m \in Months } \cup {EmployeesDir}

(***************************************************************************)
(* Inputs from the data layer.                                             *)
(***************************************************************************)
\* shift_submissions.id is a BIGSERIAL; the ids used straddle 9 -> 10 so that
\* the string order of the natural key differs from the numeric order.
FirstSubId == 9
SubIds == FirstSubId..(FirstSubId + NumSubs - 1)

TargetDate(ym, day) == ym \o "-" \o Pad2(ToString(day))
Days == {1, 2}

\* Detail lines of one submission, ORDER BY target_date ASC.  An admin PATCH
\* can leave a submission with no detail line at all.
DetailChoices(ym) ==
  { <<>>,
    << [targetDate |-> TargetDate(ym, 1), availability |-> "available", memo |-> Null],
       [targetDate |-> TargetDate(ym, 2), availability |-> "negotiable", memo |-> Null] >>,
    << [targetDate |-> TargetDate(ym, 1), availability |-> "available", memo |-> "09:00-17:00"],
       [targetDate |-> TargetDate(ym, 2), availability |-> "negotiable", memo |-> Null] >> }

\* One employee per submission (uq_shift_submission_employee_month).
EmployeeOf(sid) == sid - FirstSubId + 1
EmployeeIds == 1..NumSubs

Submission(sid, ym, details) ==
  [id |-> sid, employeeId |-> EmployeeOf(sid), yearMonth |-> ym, details |-> details]

RECURSIVE SubmissionLists(_, _)
\* Every list listSubmissionsByMonth can return for ym: the first n ids in
\* ORDER BY s.id ASC, each with one of the detail choices.
SubmissionLists(ym, n) ==
  IF n = 0 THEN { <<>> }
  ELSE { Append(l, Submission(FirstSubId + n - 1, ym, d)) :
           l \in SubmissionLists(ym, n - 1), d \in DetailChoices(ym) }

SubmissionInputs(ym) == UNION { SubmissionLists(ym, n) : n \in 0..NumSubs }

\* listEmployees: ORDER BY employee_code ASC.  The codes run against the ids,
\* so the result arrives in descending id order.  The employees with a
\* submission keep their name; one more employee, who has none, is renamed
\* between reads (PATCH /admin/employees/:id).
DisplayNames == {"Sato", "Suzuki"}
EmployeeCode(id) == "E" \o ToString(100 - id)
Employee(id, name) ==
  [id |-> id, employeeCode |-> EmployeeCode(id), displayName |-> name,
   department |-> Null, isActive |-> TRUE]
Rosters ==
  { [i \in 1..(NumSubs + 1) |->
       IF i = 1 THEN Employee(NumSubs + 1, n)
                ELSE Employee(NumSubs + 2 - i, "Tanaka")] :
    n \in DisplayNames }

(***************************************************************************)
(* Pure functions of sync-service.ts.                                      *)
(***************************************************************************)
SubmissionHeaders ==
  << "submission_id", "year_month", "employee_id", "employee_name",
     "target_date", "availability", "time_range" >>
EmployeeHeaders ==
  << "employee_id", "employee_code", "display_name", "department", "is_active" >>
\* Columns whose value is a JavaScript number; every other column is a string.
NumberColumns == {"submission_id", "employee_id", "is_active"}

\* A CsvRow is a record; its own-property order is the order of the object
\* literal that built it, which is the header order of its dataset.
RowColumns(row) ==
  IF "submission_id" \in DOMAIN row THEN SubmissionHeaders ELSE EmployeeHeaders

\* String(value) of a cell.
String(h, v) == IF h \in NumberColumns THEN ToString(v) ELSE v

\* csvEscape: null/undefined become "", everything else String(value).  The
\* cell values the inputs above can produce hold no quote, comma, CR or LF, so
\* the test of line 46 fails and the raw text is returned.
csvEscape(h, v) ==
  IF h \in NumberColumns THEN String(h, v)
  ELSE IF v = Null THEN "" ELSE String(h, v)

\* rowsToCsv: the header line, then one line per row with the cells in header
\* order.  A line is kept as its sequence of cells (joined by "," in the
\* code), the file as its sequence of lines (each ended by "\n").
rowsToCsv(headers, rows) ==
  << headers >> \o
  [ i \in 1..Len(rows) |->
      [ j \in 1..Len(headers) |->
          csvEscape(headers[j], rows[i][headers[j]]) ] ]

RECURSIVE JsonMembers(_, _, _)
JsonMembers(row, cols, n) ==
  IF n = 0 THEN ""
  ELSE JsonMembers(row, cols, n - 1)
       \o (IF n = 1 THEN "" ELSE ",")
       \o "\"" \o cols[n] \o "\":"
       \o (IF cols[n] \in NumberColumns
             THEN ToString(row[cols[n]])
             ELSE "\"" \o row[cols[n]] \o "\"")
\* JSON.stringify(row): the members in own-property order.
JsonStringify(row) ==
  "{" \o JsonMembers(row, RowColumns(row), Len(RowColumns(row))) \o "}"

\* keyFn of the month dataset and of the employee dataset.
\* A key function that leaves the target date out.
keyFn_SubmissionOnly(row) ==
  IF "submission_id" \in DOMAIN row THEN ToString(row.submission_id)
  ELSE ToString(row.employee_id)

SubmissionKey(row) == ToString(row.submission_id) \o ":" \o row.target_date
EmployeeKey(row) == ToString(row.employee_id)
keyFn(row) ==
  IF "submission_id" \in DOMAIN row THEN SubmissionKey(row) ELSE EmployeeKey(row)

\* makeRowHashes: out[key] = JSON.stringify(row), a later row with the same
\* key overwriting an earlier one.
makeRowHashes(rows) ==
  LET keys == { keyFn(rows[i]) : i \in 1..Len(rows) }
      last(k) == CHOOSE i \in 1..Len(rows) :
                   /\ keyFn(rows[i]) = k
                   /\ \A j \in 1..Len(rows) : keyFn(rows[j]) = k => j <= i
  IN [ k \in keys |-> JsonStringify(rows[last(k)]) ]

\* A calcDiff that counts every key present on both sides as updated, without
\* comparing the serialized rows.
calcDiff_NoCompare(before, after) ==
  [ inserted |-> Cardinality({ k \in DOMAIN after : k \notin DOMAIN before }),
    updated  |-> Cardinality({ k \in DOMAIN after : k \in DOMAIN before }),
    deleted  |-> Cardinality({ k \in DOMAIN before : k \notin DOMAIN after }) ]

\* A calcDiff that compares the key sets only, as a row count would.
calcDiff_KeysOnly(before, after) ==
  [ inserted |-> Cardinality({ k \in DOMAIN after : k \notin DOMAIN before }),
    updated  |-> 0,
    deleted  |-> Cardinality({ k \in DOMAIN before : k \notin DOMAIN after }) ]

\* A calcDiff without its second loop: no key is ever counted as deleted.
calcDiff_NoDeleted(before, after) ==
  [ inserted |-> Cardinality({ k \in DOMAIN after : k \notin DOMAIN before }),
    updated  |-> Cardinality({ k \in DOMAIN after :
                                 k \in DOMAIN before /\ before[k] # after[k] }),
    deleted  |-> 0 ]

\* A calcDiff whose first loop counts a key of both maps as updated when the
\* values are equal.
calcDiff_EqualUpdated(before, after) ==
  [ inserted |-> Cardinality({ k \in DOMAIN after : k \notin DOMAIN before }),
    updated  |-> Cardinality({ k \in DOMAIN after :
                                 k \in DOMAIN before /\ before[k] = after[k] }),
    deleted  |-> Cardinality({ k \in DOMAIN before : k \notin DOMAIN after }) ]

RECURSIVE ObjectKeys(_)
\* Object.keys(map) / Object.entries(map): the keys one after the other.
ObjectKeys(keys) ==
  IF keys = {} THEN <<>>
  ELSE LET k == CHOOSE x \in keys : TRUE
       IN << k >> \o ObjectKeys(keys \ {k})

RECURSIVE ScanAfter(_, _, _, _)
\* The first loop of calcDiff (lines 73-76) over the entries of `after`.
ScanAfter(keys, before, after, counts) ==
  IF keys = <<>> THEN counts
  ELSE LET k == Head(keys)
       IN ScanAfter(Tail(keys), before, after,
            IF k \notin DOMAIN before
              THEN [counts EXCEPT !.inserted = @ + 1]
            ELSE IF before[k] # after[k]
              THEN [counts EXCEPT !.updated = @ + 1]
            ELSE counts)

RECURSIVE ScanBefore(_, _, _)
\* The second loop of calcDiff (lines 77-79) over the keys of `before`.
ScanBefore(keys, after, counts) ==
  IF keys = <<>> THEN counts
  ELSE ScanBefore(Tail(keys), after,
         IF Head(keys) \notin DOMAIN after
           THEN [counts EXCEPT !.deleted = @ + 1]
           ELSE counts)

\* calcDiff: three counters, the loop over the entries of `after` (a key
\* missing from `before` is inserted, one with another value updated), then
\* the loop over the keys of `before` (a key missing from `after` is deleted).
\* `k in before` also looks at Object.prototype; no key of the two datasets
\* ("<id>:<date>", "<id>") is the name of a member of it.
calcDiff(before, after) ==
  ScanBefore(ObjectKeys(DOMAIN before), after,
             ScanAfter(ObjectKeys(DOMAIN after), before, after,
                       [inserted |-> 0, updated |-> 0, deleted |-> 0]))

\* buildSubmissionRows: one row per detail line, memo ?? "".
buildSubmissionRows(submission, employeeName) ==
  [ i \in 1..Len(submission.details) |->
      [ submission_id |-> submission.id,
        year_month    |-> submission.yearMonth,
        employee_id   |-> submission.employeeId,
        employee_name |-> employeeName,
        target_date   |-> submission.details[i].targetDate,
        availability  |-> submission.details[i].availability,
        time_range    |-> IF submission.details[i].memo = Null
                            THEN "" ELSE submission.details[i].memo ] ]

\* employeeNameById.get(id) ?? `employee-${id}`
EmployeeName(employees, id) ==
  IF \E i \in 1..Len(employees) : employees[i].id = id
    THEN employees[CHOOSE i \in 1..Len(employees) :
                     /\ employees[i].id = id
                     /\ \A j \in 1..Len(employees) : employees[j].id = id => j <= i].displayName
    ELSE "employee-" \o ToString(id)

\* A processSubmission without the check of the detail lines.
processSubmission_NoCheck(submission, employees) ==
  [status |-> "fulfilled", reason |-> Null,
   rows |-> buildSubmissionRows(submission,
                                EmployeeName(employees, submission.employeeId))]

\* processSubmission after its timer: rejects when the submission has no
\* detail line, else fulfils with the submission's rows.
processSubmission(submission, employees) ==
  IF Len(submission.details) = 0
    THEN [status |-> "rejected", reason |-> "details is empty", rows |-> <<>>]
    ELSE [status |-> "fulfilled", reason |-> Null,
          rows |-> buildSubmissionRows(submission,
                                       EmployeeName(employees, submission.employeeId))]

(***************************************************************************)
(* Orderings used by the two sorts.                                        *)
(***************************************************************************)
RECURSIVE Digits(_)
\* The decimal digits of a natural number, most significant first.
Digits(n) == IF n < 10 THEN << n >> ELSE Append(Digits(n \div 10), n % 10)

\* Position of a "YYYY-MM-DD" text among the dates of the model, which is its
\* order as a string: the format is fixed-width.
DateRank(d) ==
  CHOOSE r \in { <<i, day>> : i \in 1..Len(MonthSeq), day \in Days } :
    TargetDate(YearMonth(MonthSeq[r[1]]), r[2]) = d

\* left.localeCompare(right) < 0 for left = `${a.submission_id}:${a.target_date}`:
\* the ids are compared digit by digit, an id that is a proper prefix of the
\* other being followed by ":", which collates before every digit; equal ids
\* are decided by the dates.
KeyBefore(a, b) ==
  LET da == Digits(a.submission_id)
      db == Digits(b.submission_id)
      n  == IF Len(da) < Len(db) THEN Len(da) ELSE Len(db)
      differ == { i \in 1..n : da[i] # db[i] }
      first == CHOOSE i \in differ : \A j \in differ : i <= j
  IN IF differ # {} THEN da[first] < db[first]
     ELSE IF Len(da) # Len(db) THEN Len(da) < Len(db)
     ELSE LET ra == DateRank(a.target_date)
              rb == DateRank(b.target_date)
          IN ra[1] < rb[1] \/ (ra[1] = rb[1] /\ ra[2] < rb[2])

RECURSIVE InsertRow(_, _)
\* Stable insertion of `row` into the sorted sequence `sorted`.
InsertRow(sorted, row) ==
  IF sorted = <<>> THEN << row >>
  ELSE IF KeyBefore(row, sorted[Len(sorted)])
         THEN Append(InsertRow(SubSeq(sorted, 1, Len(sorted) - 1), row),
                     sorted[Len(sorted)])
         ELSE Append(sorted, row)

RECURSIVE SortByKey(_)
\* csvRows.sort(...) of runCsvSync (Array.prototype.sort is stable).
SortByKey(rows) ==
  IF rows = <<>> THEN <<>>
  ELSE InsertRow(SortByKey(SubSeq(rows, 1, Len(rows) - 1)), rows[Len(rows)])

RECURSIVE InsertEmployee(_, _)
InsertEmployee(sorted, row) ==
  IF sorted = <<>> THEN << row >>
  ELSE IF row.employee_id < sorted[Len(sorted)].employee_id
         THEN Append(InsertEmployee(SubSeq(sorted, 1, Len(sorted) - 1), row),
                     sorted[Len(sorted)])
         ELSE Append(sorted, row)

RECURSIVE SortByEmployeeId(_)
\* .sort((a, b) => Number(a.employee_id) - Number(b.employee_id))
SortByEmployeeId(rows) ==
  IF rows = <<>> THEN <<>>
  ELSE InsertEmployee(SortByEmployeeId(SubSeq(rows, 1, Len(rows) - 1)), rows[Len(rows)])

\* The rows exportEmployeesCsvDiff builds from listEmployees().
EmployeeRows(employees) ==
  SortByEmployeeId(
    [ i \in 1..Len(employees) |->
        [ employee_id   |-> employees[i].id,
          employee_code |-> employees[i].employeeCode,
          display_name  |-> employees[i].displayName,
          department    |-> IF employees[i].department = Null
                              THEN "" ELSE employees[i].department,
          is_active     |-> IF employees[i].isActive THEN 1 ELSE 0 ] ])

\* String(version).padStart(4, "0")
PadStart4(s) ==
  IF Len(s) >= 4 THEN s
  ELSE IF Len(s) = 3 THEN "0" \o s
  ELSE IF Len(s) = 2 THEN "00" \o s
  ELSE IF Len(s) = 1 THEN "000" \o s
  ELSE "0000"

\* `${filePrefix}_v${version padded}_${ts}.csv`
FileName(filePrefix, version, ts) ==
  filePrefix \o "_v" \o PadStart4(ToString(version)) \o "_" \o ToString(ts) \o ".csv"

\* path.join(baseDir, fileName)
PathJoin(baseDir, fileName) == baseDir \o "/" \o fileName

\* `${yearMonth.replace("-", "")}_submissions`
SubmissionsPrefix(m) == m[1] \o m[2] \o "_submissions"
EmployeesPrefix == "employees"

(***************************************************************************)
(* State.                                                                  *)
(***************************************************************************)
VARIABLES
  DEFAULT_INDEX,   \* the module-level constant object; its `files` array is shared
  indexJson,       \* baseDir -> content of <baseDir>/index.json
  csvFiles,        \* baseDir -> the artifact writes into it, in order (with
                   \* the version and the rows each write was made for)
  now,             \* last value Date.now() returned
  sync_jobs,       \* rows of sync_jobs, row i has id i
  sync_job_items,  \* rows of sync_job_items
  proc,            \* per request: position and local variables (settleOrder
                   \* records the order in which its attempts settled)
  lastExport,      \* baseDir -> what the previous writeCsvWithDiff call on it returned
  csv,             \* a row of string values and the CSV text rowsToCsv gives for it
  diffCase,        \* a pair of key -> hash maps and what calcDiff gives for it
  http             \* the request being handled: its handler, its mutation, its response

vars == << DEFAULT_INDEX, indexJson, csvFiles, now, sync_jobs, sync_job_items,
           proc, lastExport, csv, diffCase, http >>

\* index.json that was never written.
NoFile == [exists |-> FALSE]

\* The value of `index` inside writeCsvWithDiff.  `files` is a reference: it
\* is either the array of DEFAULT_INDEX (shared = TRUE) or an array of the
\* call's own, held in `files`.
NoIndex ==
  [latestVersion |-> 0, latestFilePath |-> Null, rowHashes |-> <<>>,
   shared |-> FALSE, files |-> <<>>]

NoDiff == [inserted |-> 0, updated |-> 0, deleted |-> 0]
NoExport == [changed |-> FALSE, diff |-> NoDiff, artifact |-> NullRef]

\* Frame of a writeCsvWithDiff call.
NoWriter ==
  [baseDir |-> "", filePrefix |-> "", headers |-> <<>>, rows |-> <<>>,
   index |-> NoIndex, rowHashes |-> <<>>, diff |-> NoDiff, changed |-> FALSE,
   version |-> 0, fileName |-> "", filePath |-> "", json |-> NoFile,
   ret |-> NoExport]

NoReturn == [kind |-> "none"]

IdleProc ==
  [op |-> "none", pc |-> "idle", yearMonth |-> <<"", "">>, triggerType |-> "",
   submissions |-> <<>>, jobId |-> 0, employees |-> <<>>, settled |-> <<>>,
   settleOrder |-> <<>>, i |-> 0, csvRows |-> <<>>, failedCount |-> 0, w |-> NoWriter,
   submissionsExport |-> NoExport, employeesExport |-> NoExport,
   result |-> NoReturn]

NoLast == [called |-> FALSE]

\* No row is being serialized character by character.
NoCsv == [row |-> <<>>, cells |-> <<>>, text |-> <<>>, written |-> FALSE]

\* No pair of maps is being compared on its own.
NoDiffCase ==
  [before |-> <<>>, after |-> <<>>, latestFilePath |-> Null, diff |-> NoDiff,
   changed |-> FALSE, done |-> FALSE]

\* No route handler is running.
NoRequest == [handler |-> "none", committed |-> FALSE, status |-> 0]

Init ==
  /\ DEFAULT_INDEX = [latestVersion |-> 0, latestFilePath |-> Null,
                      rowHashes |-> <<>>, files |-> <<>>]
  /\ indexJson = [d \in Datasets |-> NoFile]
  /\ csvFiles = [d \in Datasets |-> <<>>]
  /\ now = 0
  /\ sync_jobs = <<>>
  /\ sync_job_items = {}
  /\ proc = [p \in Procs |-> IdleProc]
  /\ lastExport = [d \in Datasets |-> NoLast]
  /\ csv = NoCsv
  /\ diffCase = NoDiffCase
  /\ http = NoRequest

(***************************************************************************)
(* readIndex / writeCsvWithDiff.                                           *)
(***************************************************************************)
\* index.json after an fs.writeFile that stopped part-way: the file was opened
\* for writing (truncated) and holds no complete JSON text.
Truncated == [exists |-> TRUE, truncated |-> TRUE]

\* fs.readFile and JSON.parse of the file both succeed.
Readable(file) == file.exists /\ file # Truncated

\* The array `index.files` refers to.
Files(index) == IF index.shared THEN DEFAULT_INDEX.files ELSE index.files

\* readIndex: the parsed file, or a shallow copy of DEFAULT_INDEX when the
\* file cannot be read.  The copy's `files` is DEFAULT_INDEX's own array.
readIndex(file) ==
  IF Readable(file)
    THEN [latestVersion |-> file.latestVersion, latestFilePath |-> file.latestFilePath,
          rowHashes |-> file.rowHashes, shared |-> FALSE, files |-> file.files]
    ELSE [latestVersion |-> DEFAULT_INDEX.latestVersion,
          latestFilePath |-> DEFAULT_INDEX.latestFilePath,
          rowHashes |-> DEFAULT_INDEX.rowHashes, shared |-> TRUE, files |-> <<>>]

\* A changed flag without the clause for a dataset that has no artifact yet.
Changed_DiffOnly(diff, index) ==
  diff.inserted + diff.updated + diff.deleted > 0

\* changed = diff.inserted + diff.updated + diff.deleted > 0 || !index.latestFilePath
Changed(diff, index) ==
  diff.inserted + diff.updated + diff.deleted > 0 \/ index.latestFilePath = Null

\* The first entry of index.files instead of the last.
LatestArtifact_First(files) ==
  IF Len(files) = 0 THEN NullRef
  ELSE [fileName |-> files[1].fileName,
        filePath |-> files[1].filePath,
        version  |-> files[1].version]

\* The artifact of the unchanged branch: the last entry of index.files.
LatestArtifact(files) ==
  IF Len(files) = 0 THEN NullRef
  ELSE [fileName |-> files[Len(files)].fileName,
        filePath |-> files[Len(files)].filePath,
        version  |-> files[Len(files)].version]

\* The index serialized as it was before the push of the new history entry.
StringifyIndex_BeforePush(index, files) ==
  [exists |-> TRUE, latestVersion |-> index.latestVersion,
   latestFilePath |-> index.latestFilePath, rowHashes |-> index.rowHashes,
   files |-> SubSeq(files, 1, Len(files) - 1)]

\* JSON.stringify(index, null, 2), as the value JSON.parse gives back.
StringifyIndex(index, files) ==
  [exists |-> TRUE, latestVersion |-> index.latestVersion,
   latestFilePath |-> index.latestFilePath, rowHashes |-> index.rowHashes,
   files |-> files]

\* A call of writeCsvWithDiff up to its first await, fs.mkdir.
EnterWriter(baseDir, filePrefix, headers, rows) ==
  [NoWriter EXCEPT !.baseDir = baseDir, !.filePrefix = filePrefix,
                   !.headers = headers, !.rows = rows]

\* fs.mkdir resolved; readIndex is called and awaits fs.readFile.
Mkdir(p) ==
  /\ proc[p].pc = "mkdir"
  /\ proc' = [proc EXCEPT ![p].pc = "readIndex"]
  /\ UNCHANGED << csv, diffCase, http, DEFAULT_INDEX, indexJson, csvFiles, now, sync_jobs,
                  sync_job_items, lastExport >>

\* readIndex resolved: lines 111-131 up to the await of the artifact write.
ReadIndex(p) ==
  /\ proc[p].pc = "readIndex"
  /\ LET w == proc[p].w
         index == readIndex(indexJson[w.baseDir])
         rowHashes == makeRowHashes(w.rows)
         diff == calcDiff(index.rowHashes, rowHashes)
         changed == Changed(diff, index)
     IN IF ~changed
          THEN /\ proc' = [proc EXCEPT
                    ![p].pc = "wReturn",
                    ![p].w = [w EXCEPT !.index = index, !.rowHashes = rowHashes,
                                       !.diff = diff, !.changed = FALSE,
                                       !.ret = [changed |-> FALSE, diff |-> diff,
                                                artifact |-> LatestArtifact(Files(index))]]]
               /\ now' = now
          ELSE \E ts \in now..MaxClock :
                 LET version == index.latestVersion + 1
                     fileName == FileName(w.filePrefix, version, ts)
                 IN /\ now' = ts
                    /\ proc' = [proc EXCEPT
                         ![p].pc = "writeCsv",
                         ![p].w = [w EXCEPT !.index = index, !.rowHashes = rowHashes,
                                            !.diff = diff, !.changed = TRUE,
                                            !.version = version, !.fileName = fileName,
                                            !.filePath = PathJoin(w.baseDir, fileName)]]
  /\ UNCHANGED << csv, diffCase, http, DEFAULT_INDEX, indexJson, csvFiles, sync_jobs, sync_job_items,
                  lastExport >>

\* The artifact write resolved: lines 131-142 up to the await of the index
\* write.  index.files.push(...) changes the array `files` refers to.
WriteCsv(p) ==
  /\ proc[p].pc = "writeCsv"
  /\ \E createdAt \in now..MaxClock :
       LET w == proc[p].w
           entry == [version |-> w.version, fileName |-> w.fileName,
                     filePath |-> w.filePath, createdAt |-> createdAt]
           files == Append(Files(w.index), entry)
           index == [w.index EXCEPT !.latestVersion = w.version,
                                    !.latestFilePath = w.filePath,
                                    !.rowHashes = w.rowHashes,
                                    !.files = IF w.index.shared THEN <<>> ELSE files]
       IN /\ csvFiles' = [csvFiles EXCEPT ![w.baseDir] =
                            Append(@, [filePath |-> w.filePath,
                                       content |-> rowsToCsv(w.headers, w.rows),
                                       version |-> w.version,
                                       rows |-> w.rows])]
          /\ DEFAULT_INDEX' = IF w.index.shared
                                THEN [DEFAULT_INDEX EXCEPT !.files = files]
                                ELSE DEFAULT_INDEX
          /\ now' = createdAt
          /\ proc' = [proc EXCEPT
               ![p].pc = "writeIndex",
               ![p].w = [w EXCEPT !.index = index,
                                  !.json = StringifyIndex(index, files)]]
  /\ UNCHANGED << csv, diffCase, http, indexJson, sync_jobs, sync_job_items, lastExport >>

\* The index write resolved: writeCsvWithDiff returns changed = true.
WriteIndex(p) ==
  /\ proc[p].pc = "writeIndex"
  /\ LET w == proc[p].w
     IN /\ indexJson' = [indexJson EXCEPT ![w.baseDir] = w.json]
        /\ proc' = [proc EXCEPT
             ![p].pc = "wReturn",
             ![p].w = [w EXCEPT !.ret = [changed |-> TRUE, diff |-> w.diff,
                                         artifact |-> [fileName |-> w.fileName,
                                                       filePath |-> w.filePath,
                                                       version |-> w.version]]]]
  /\ UNCHANGED << csv, diffCase, http, DEFAULT_INDEX, csvFiles, now, sync_jobs, sync_job_items,
                  lastExport >>

\* What a returning writeCsvWithDiff call leaves for the next call to compare with.
Returned(w) ==
  [called |-> TRUE, rows |-> w.rows, ret |-> w.ret,
   first |-> w.index.shared, json |-> indexJson[w.baseDir],
   written |-> Len(csvFiles[w.baseDir])]

(***************************************************************************)
(* runCsvSync.                                                             *)
(***************************************************************************)
TriggerTypes == {"auto"}

LatestVersion(d) == IF Readable(indexJson[d]) THEN indexJson[d].latestVersion ELSE 0

\* The model stops starting exports of a dataset whose version reached MaxVersion.
CanExport(d) == LatestVersion(d) < MaxVersion

\* A runCsvSync without its precondition.
Precondition_None(submissions) == TRUE

\* if (submissions.length === 0) throw new Error("no submissions for target month")
Precondition(submissions) == Len(submissions) # 0

\* runCsvSync is called: the precondition, then the await of createSyncJob.
CallRunCsvSync(p, m, submissions, triggerType) ==
  /\ proc[p].pc = "idle"
  /\ Len(sync_jobs) < MaxJobs
  /\ CanExport(MonthDir(YearMonth(m)))
  /\ CanExport(EmployeesDir)
  /\ proc' = [proc EXCEPT ![p] =
       IF Precondition(submissions)
         THEN [IdleProc EXCEPT !.op = "runCsvSync", !.pc = "createSyncJob",
                               !.yearMonth = m, !.triggerType = triggerType,
                               !.submissions = submissions]
         ELSE [IdleProc EXCEPT !.op = "runCsvSync", !.pc = "threw",
                               !.yearMonth = m, !.triggerType = triggerType,
                               !.submissions = submissions,
                               !.result = [kind |-> "throw",
                                           message |-> "no submissions for target month"]]]
  /\ UNCHANGED << csv, diffCase, http, DEFAULT_INDEX, indexJson, csvFiles, now, sync_jobs,
                  sync_job_items, lastExport >>

\* createSyncJob: INSERT INTO sync_jobs ... RETURNING id; then listEmployees
\* is awaited.
CreateSyncJob(p) ==
  /\ proc[p].pc = "createSyncJob"
  /\ sync_jobs' = Append(sync_jobs,
                         [id |-> Len(sync_jobs) + 1,
                          triggerType |-> proc[p].triggerType,
                          status |-> "running",
                          sheetName |-> "csv_" \o YearMonth(proc[p].yearMonth),
                          errorMessage |-> Null, finished |-> FALSE])
  /\ proc' = [proc EXCEPT ![p].jobId = Len(sync_jobs) + 1,
                          ![p].pc = "listEmployees"]
  /\ UNCHANGED << csv, diffCase, http, DEFAULT_INDEX, indexJson, csvFiles, now, sync_job_items,
                  lastExport >>

\* listEmployees resolved: every processSubmission is started (each awaits
\* its timer) and Promise.allSettled is awaited.
ListEmployees(p, employees) ==
  /\ proc[p].pc = "listEmployees"
  /\ proc' = [proc EXCEPT
       ![p].employees = employees,
       ![p].settled = [k \in 1..Len(proc[p].submissions) |->
                         [status |-> "pending", reason |-> Null, rows |-> <<>>]],
       ![p].pc = "allSettled"]
  /\ UNCHANGED << csv, diffCase, http, DEFAULT_INDEX, indexJson, csvFiles, now, sync_jobs,
                  sync_job_items, lastExport >>

\* The timer of attempt k fired: the attempt settles.  Attempts settle in
\* any order; allSettled keeps each result at the index of its input.
SettleSubmission(p, k) ==
  /\ proc[p].pc = "allSettled"
  /\ k \in 1..Len(proc[p].settled)
  /\ proc[p].settled[k].status = "pending"
  /\ proc' = [proc EXCEPT
       ![p].settled[k] = processSubmission(proc[p].submissions[k], proc[p].employees),
       ![p].settleOrder = Append(@, k)]
  /\ UNCHANGED << csv, diffCase, http, DEFAULT_INDEX, indexJson, csvFiles, now, sync_jobs,
                  sync_job_items, lastExport >>

\* A combinator that settles with the first rejection, as Promise.all does.
AllAttemptsSettled_FirstRejection(settled) ==
  \/ \A k \in 1..Len(settled) : settled[k].status # "pending"
  \/ \E k \in 1..Len(settled) : settled[k].status = "rejected"

\* Promise.allSettled resolves when every promise has fulfilled or rejected.
AllAttemptsSettled(settled) ==
  \A k \in 1..Len(settled) : settled[k].status # "pending"

\* Promise.allSettled resolved: every attempt has settled.
AllSettled(p) ==
  /\ proc[p].pc = "allSettled"
  /\ AllAttemptsSettled(proc[p].settled)
  /\ proc' = [proc EXCEPT ![p].pc = "recordItems", ![p].i = 1,
                          ![p].csvRows = <<>>, ![p].failedCount = 0]
  /\ UNCHANGED << csv, diffCase, http, DEFAULT_INDEX, indexJson, csvFiles, now, sync_jobs,
                  sync_job_items, lastExport >>

\* An upsert whose conflict target is the job alone.
addSyncJobItem_PerJob(items, item) ==
  { x \in items : x.syncJobId # item.syncJobId } \cup { item }

\* addSyncJobItem: INSERT ... ON CONFLICT (sync_job_id, shift_submission_id)
\* DO UPDATE.
addSyncJobItem(items, item) ==
  { x \in items : ~ ( x.syncJobId = item.syncJobId
                      /\ x.shiftSubmissionId = item.shiftSubmissionId ) }
  \cup { item }

\* One iteration of the loop over `settled` (lines 213-232).
RecordItem(p) ==
  /\ proc[p].pc = "recordItems"
  /\ proc[p].i <= Len(proc[p].settled)
  /\ LET result == proc[p].settled[proc[p].i]
         submission == proc[p].submissions[proc[p].i]
     IN IF result.status = "fulfilled"
          THEN /\ proc' = [proc EXCEPT ![p].csvRows = @ \o result.rows,
                                       ![p].i = @ + 1]
               /\ sync_job_items' =
                    addSyncJobItem(sync_job_items,
                                   [syncJobId |-> proc[p].jobId,
                                    shiftSubmissionId |-> submission.id,
                                    status |-> "success", errorMessage |-> Null])
          ELSE /\ proc' = [proc EXCEPT ![p].failedCount = @ + 1,
                                       ![p].i = @ + 1]
               /\ sync_job_items' =
                    addSyncJobItem(sync_job_items,
                                   [syncJobId |-> proc[p].jobId,
                                    shiftSubmissionId |-> submission.id,
                                    status |-> "failed", errorMessage |-> result.reason])
  /\ UNCHANGED << csv, diffCase, http, DEFAULT_INDEX, indexJson, csvFiles, now, sync_jobs, lastExport >>

\* The rows in the order of the loop over the settled attempts, unsorted.
ExportRows_Unsorted(csvRows) == csvRows

\* The rows runCsvSync hands to the month's export: csvRows sorted by key.
ExportRows(csvRows) == SortByKey(csvRows)

\* After the loop: csvRows.sort(...) and the call of writeCsvWithDiff for
\* the month's dataset (lines 234-254).
ExportSubmissions(p) ==
  /\ proc[p].pc = "recordItems"
  /\ proc[p].i > Len(proc[p].settled)
  /\ LET rows == ExportRows(proc[p].csvRows)
     IN proc' = [proc EXCEPT
          ![p].csvRows = rows,
          ![p].pc = "mkdir",
          ![p].w = EnterWriter(MonthDir(YearMonth(proc[p].yearMonth)),
                               SubmissionsPrefix(proc[p].yearMonth),
                               SubmissionHeaders, rows)]
  /\ UNCHANGED << csv, diffCase, http, DEFAULT_INDEX, indexJson, csvFiles, now, sync_jobs,
                  sync_job_items, lastExport >>

\* The month's export returned; exportEmployeesCsvDiff is called and awaits
\* listEmployees (line 255, line 173).
SubmissionsExported(p) ==
  /\ proc[p].pc = "wReturn"
  /\ proc[p].op = "runCsvSync"
  /\ proc[p].w.baseDir # EmployeesDir
  /\ lastExport' = [lastExport EXCEPT ![proc[p].w.baseDir] = Returned(proc[p].w)]
  /\ proc' = [proc EXCEPT ![p].submissionsExport = proc[p].w.ret,
                          ![p].pc = "exportEmployees"]
  /\ UNCHANGED << csv, diffCase, http, DEFAULT_INDEX, indexJson, csvFiles, now, sync_jobs, sync_job_items >>

\* exportEmployeesCsvDiff called on its own (the employee handlers).
CallExportEmployees(p) ==
  /\ proc[p].pc = "idle"
  /\ CanExport(EmployeesDir)
  /\ proc' = [proc EXCEPT ![p] = [IdleProc EXCEPT !.op = "exportEmployeesCsvDiff",
                                                 !.pc = "exportEmployees"]]
  /\ UNCHANGED << csv, diffCase, http, DEFAULT_INDEX, indexJson, csvFiles, now, sync_jobs,
                  sync_job_items, lastExport >>

\* listEmployees of exportEmployeesCsvDiff resolved: the rows are built and
\* sorted and writeCsvWithDiff is called for the employee dataset.
ExportEmployees(p, employees) ==
  /\ proc[p].pc = "exportEmployees"
  /\ proc' = [proc EXCEPT
       ![p].pc = "mkdir",
       ![p].w = EnterWriter(EmployeesDir, EmployeesPrefix, EmployeeHeaders,
                            EmployeeRows(employees))]
  /\ UNCHANGED << csv, diffCase, http, DEFAULT_INDEX, indexJson, csvFiles, now, sync_jobs,
                  sync_job_items, lastExport >>

\* A status that ignores the failed items.
Status_Success(failedCount) == "success"

\* const status = failedCount > 0 ? "failed" : "success"
Status(failedCount) == IF failedCount > 0 THEN "failed" ELSE "success"
ErrorMessage(failedCount) ==
  IF failedCount > 0 THEN "some rows failed during parallel csv export" ELSE Null

\* A summary that counts every input as successful.
Summary_AllSuccess(total, failedCount, submissionDiff, employeeDiff) ==
  [total |-> total, success |-> total, failed |-> failedCount,
   submissionDiff |-> submissionDiff, employeeDiff |-> employeeDiff]

\* The summary of the returned object (lines 271-277).
Summary(total, failedCount, submissionDiff, employeeDiff) ==
  [total |-> total, success |-> total - failedCount, failed |-> failedCount,
   submissionDiff |-> submissionDiff, employeeDiff |-> employeeDiff]

\* The employee export of runCsvSync returned; finishSyncJob is awaited.
EmployeesExported(p) ==
  /\ proc[p].pc = "wReturn"
  /\ proc[p].op = "runCsvSync"
  /\ proc[p].w.baseDir = EmployeesDir
  /\ lastExport' = [lastExport EXCEPT ![EmployeesDir] = Returned(proc[p].w)]
  /\ proc' = [proc EXCEPT ![p].employeesExport = proc[p].w.ret,
                          ![p].pc = "finishSyncJob"]
  /\ UNCHANGED << csv, diffCase, http, DEFAULT_INDEX, indexJson, csvFiles, now, sync_jobs, sync_job_items >>

\* finishSyncJob: UPDATE sync_jobs SET status, error_message, finished_at;
\* then runCsvSync returns (lines 257-284).
FinishSyncJob(p) ==
  /\ proc[p].pc = "finishSyncJob"
  /\ LET status == Status(proc[p].failedCount)
         errorMessage == ErrorMessage(proc[p].failedCount)
         total == Len(proc[p].submissions)
     IN /\ sync_jobs' = [sync_jobs EXCEPT ![proc[p].jobId] =
                           [@ EXCEPT !.status = status, !.errorMessage = errorMessage,
                                     !.finished = TRUE]]
        /\ proc' = [proc EXCEPT
             ![p].pc = "returned",
             ![p].result =
               [kind |-> "return",
                job |-> [id |-> proc[p].jobId, status |-> status,
                         errorMessage |-> errorMessage],
                summary |-> Summary(total, proc[p].failedCount,
                                    proc[p].submissionsExport.diff,
                                    proc[p].employeesExport.diff),
                artifact |-> [yearMonth |-> YearMonth(proc[p].yearMonth),
                              submissionsCsv |-> proc[p].submissionsExport.artifact,
                              employeesCsv |-> proc[p].employeesExport.artifact,
                              changed |-> proc[p].submissionsExport.changed
                                          \/ proc[p].employeesExport.changed]]]
  /\ UNCHANGED << csv, diffCase, http, DEFAULT_INDEX, indexJson, csvFiles, now, sync_job_items, lastExport >>

\* exportEmployeesCsvDiff called on its own returns what writeCsvWithDiff returned.
EmployeesExportReturned(p) ==
  /\ proc[p].pc = "wReturn"
  /\ proc[p].op = "exportEmployeesCsvDiff"
  /\ lastExport' = [lastExport EXCEPT ![EmployeesDir] = Returned(proc[p].w)]
  /\ proc' = [proc EXCEPT ![p].pc = "returned",
                          ![p].result = [kind |-> "return", export |-> proc[p].w.ret]]
  /\ UNCHANGED << csv, diffCase, http, DEFAULT_INDEX, indexJson, csvFiles, now, sync_jobs, sync_job_items >>

\* The caller took the result (or the error); the request is over.
Respond(p) ==
  /\ proc[p].pc \in {"returned", "threw"}
  /\ proc' = [proc EXCEPT ![p] = IdleProc]
  /\ UNCHANGED << csv, diffCase, http, DEFAULT_INDEX, indexJson, csvFiles, now, sync_jobs,
                  sync_job_items, lastExport >>

(***************************************************************************)
(* Specifications.                                                         *)
(***************************************************************************)
\* A step of request p inside runCsvSync or exportEmployeesCsvDiff.
Run(p) ==
  \/ CreateSyncJob(p)
  \/ \E employees \in Rosters : ListEmployees(p, employees)
  \/ \E k \in 1..NumSubs : SettleSubmission(p, k)
  \/ AllSettled(p)
  \/ RecordItem(p)
  \/ ExportSubmissions(p)
  \/ Mkdir(p)
  \/ ReadIndex(p)
  \/ WriteCsv(p)
  \/ WriteIndex(p)
  \/ SubmissionsExported(p)
  \/ \E employees \in Rosters : ExportEmployees(p, employees)
  \/ EmployeesExported(p)
  \/ FinishSyncJob(p)
  \/ EmployeesExportReturned(p)

\* A step of request p other than its start.
Step(p) == Run(p) \/ Respond(p)

Start(p) ==
  \/ \E m \in Months, triggerType \in TriggerTypes :
       \E submissions \in SubmissionInputs(YearMonth(m)) :
         CallRunCsvSync(p, m, submissions, triggerType)
  \/ CallExportEmployees(p)

\* Requests served one after the other: a request starts when none is in flight.
Next == Start(1) \/ Step(1)

Spec == Init /\ [][Next]_vars

\* The month's list read by a request that overlaps another: one submission
\* with its detail lines.
ConcurrentInputs(ym) ==
  { submissions \in SubmissionInputs(ym) :
      Len(submissions) = 1 /\ Len(submissions[1].details) > 0 }

\* Request 1 is a handler that calls runCsvSync (POST /shift-submissions, the
\* admin PATCH of a submission, POST /admin/sync-jobs), here for the first
\* job of the ledger; requests 2 are handlers that call exportEmployeesCsvDiff
\* (employee create or update, employee-login), one after the other.
StartConcurrent(p) ==
  \/ /\ p = 1
     /\ Len(sync_jobs) = 0
     /\ \E m \in Months, triggerType \in TriggerTypes :
          \E submissions \in ConcurrentInputs(YearMonth(m)) :
            CallRunCsvSync(p, m, submissions, triggerType)
  \/ /\ p = 2
     /\ CallExportEmployees(p)

\* Requests of the HTTP server overlap: each handler runs up to its next
\* await, and any request in flight may be the one that resumes.
NextConcurrent == \E p \in Procs : StartConcurrent(p) \/ Step(p)

SpecConcurrent == Init /\ [][NextConcurrent]_vars

(***************************************************************************)
(* The CSV text, character by character.  A string is a sequence of        *)
(* one-character strings.                                                  *)
(***************************************************************************)
MaxFieldLen == 2

Quote == "\""
Comma == ","
CR == "\r"
LF == "\n"

\* The characters of the bounded field values.
Alphabet == { "a", Comma, Quote, CR, LF }

\* Mon, "AM" only
ExampleMemo ==
  << "M", "o", "n", Comma, " ", Quote, "A", "M", Quote, " ", "o", "n", "l", "y" >>

\* /[",\r\n]/.test(raw)
NeedsQuoting(raw) == \E i \in 1..Len(raw) : raw[i] \in { Quote, Comma, CR, LF }

\* A replace that leaves the quotes as they are.
ReplaceQuotes_Kept(raw) == raw

RECURSIVE ReplaceQuotes(_)
\* raw.replace(/"/g, "\"\"")
ReplaceQuotes(raw) ==
  IF raw = <<>> THEN <<>>
  ELSE (IF Head(raw) = Quote THEN << Quote, Quote >> ELSE << Head(raw) >>)
         \o ReplaceQuotes(Tail(raw))

\* csvEscape on the characters of String(value).
csvEscapeRaw(raw) ==
  IF ~ NeedsQuoting(raw) THEN raw
  ELSE << Quote >> \o ReplaceQuotes(raw) \o << Quote >>

RECURSIVE Join(_, _)
\* Array.prototype.join
Join(strings, sep) ==
  IF strings = <<>> THEN <<>>
  ELSE IF Len(strings) = 1 THEN strings[1]
  ELSE strings[1] \o sep \o Join(Tail(strings), sep)

\* The text of rowsToCsv for one row, without the header line:
\* headers.map((h) => csvEscape(row[h])).join(",") followed by "\n".
RowText(row) ==
  Join([ k \in 1..Len(row) |-> csvEscapeRaw(row[k]) ], << Comma >>) \o << LF >>

RECURSIVE ReadRecord(_, _, _, _, _)
\* A conformant (RFC 4180) reader of the first record of `text`, started at
\* position i: a field that opens with a quote runs to its closing quote, a
\* doubled quote inside it standing for one quote; fields are separated by
\* commas and the record ends at a line break outside quotes.
ReadRecord(text, i, quoted, field, fields) ==
  IF i > Len(text) THEN Append(fields, field)
  ELSE IF quoted
    THEN IF text[i] = Quote
           THEN IF i < Len(text) /\ text[i + 1] = Quote
                  THEN ReadRecord(text, i + 2, TRUE, Append(field, Quote), fields)
                  ELSE ReadRecord(text, i + 1, FALSE, field, fields)
           ELSE ReadRecord(text, i + 1, TRUE, Append(field, text[i]), fields)
    ELSE IF text[i] = Quote /\ field = <<>>
           THEN ReadRecord(text, i + 1, TRUE, field, fields)
         ELSE IF text[i] = Comma
           THEN ReadRecord(text, i + 1, FALSE, <<>>, Append(fields, field))
         ELSE IF text[i] \in { CR, LF }
           THEN Append(fields, field)
         ELSE ReadRecord(text, i + 1, FALSE, Append(field, text[i]), fields)

RECURSIVE Strings(_)
\* The strings over Alphabet of length n or less.
Strings(n) ==
  IF n = 0 THEN { <<>> }
  ELSE Strings(n - 1)
         \cup { Append(t, c) : t \in { u \in Strings(n - 1) : Len(u) = n - 1 },
                               c \in Alphabet }

\* Rows of two string fields: every pair of bounded strings, and the memo
\* of the example next to an empty field.
EscapeInputs ==
  { << x, y >> : x, y \in Strings(MaxFieldLen) }
    \cup { << ExampleMemo, <<>> >>, << << "a" >>, ExampleMemo >> }

InitEscape ==
  /\ DEFAULT_INDEX = [latestVersion |-> 0, latestFilePath |-> Null,
                      rowHashes |-> <<>>, files |-> <<>>]
  /\ indexJson = [d \in Datasets |-> NoFile]
  /\ csvFiles = [d \in Datasets |-> <<>>]
  /\ now = 0
  /\ sync_jobs = <<>>
  /\ sync_job_items = {}
  /\ proc = [p \in Procs |-> IdleProc]
  /\ lastExport = [d \in Datasets |-> NoLast]
  /\ csv \in { [NoCsv EXCEPT !.row = row] : row \in EscapeInputs }
  /\ diffCase = NoDiffCase
  /\ http = NoRequest

\* rowsToCsv serializes the row.
SerializeRow ==
  /\ ~ csv.written
  /\ csv' = [csv EXCEPT !.cells = [ k \in 1..Len(csv.row) |-> csvEscapeRaw(csv.row[k]) ],
                        !.text = RowText(csv.row),
                        !.written = TRUE]
  /\ UNCHANGED << diffCase, http, DEFAULT_INDEX, indexJson, csvFiles, now,
                  sync_jobs, sync_job_items, proc, lastExport >>

NextEscape == SerializeRow

SpecEscape == InitEscape /\ [][NextEscape]_vars

(***************************************************************************)
(* calcDiff and the changed flag on pairs of key -> hash maps.             *)
(***************************************************************************)
MaxDiffKeys == 3

DiffKeys == { ToString(k) : k \in 1..MaxDiffKeys }
\* Serialized rows, as far as calcDiff looks at them: strings compared by !==.
DiffValues == { "x", "y" }

\* Every map from some of the keys to the values.
RowHashMaps == UNION { [ keys -> DiffValues ] : keys \in SUBSET DiffKeys }

\* What readIndex can give: the default index (no artifact, no hashes), or a
\* persisted index, which names its latest artifact and holds any map.
DiffCases ==
  { [NoDiffCase EXCEPT !.before = before, !.after = after,
                       !.latestFilePath = "storage/csv/employees/employees_v0001_0.csv"] :
      before \in RowHashMaps, after \in RowHashMaps }
  \cup { [NoDiffCase EXCEPT !.after = after] : after \in RowHashMaps }

InitDiff ==
  /\ DEFAULT_INDEX = [latestVersion |-> 0, latestFilePath |-> Null,
                      rowHashes |-> <<>>, files |-> <<>>]
  /\ indexJson = [d \in Datasets |-> NoFile]
  /\ csvFiles = [d \in Datasets |-> <<>>]
  /\ now = 0
  /\ sync_jobs = <<>>
  /\ sync_job_items = {}
  /\ proc = [p \in Procs |-> IdleProc]
  /\ lastExport = [d \in Datasets |-> NoLast]
  /\ csv = NoCsv
  /\ diffCase \in DiffCases
  /\ http = NoRequest

\* Lines 113-114 of writeCsvWithDiff on the pair of maps.
CompareHashes ==
  /\ ~ diffCase.done
  /\ LET diff == calcDiff(diffCase.before, diffCase.after)
     IN diffCase' = [diffCase EXCEPT
          !.diff = diff,
          !.changed = Changed(diff, [NoIndex EXCEPT
                                       !.latestFilePath = diffCase.latestFilePath]),
          !.done = TRUE]
  /\ UNCHANGED << csv, http, DEFAULT_INDEX, indexJson, csvFiles, now, sync_jobs,
                  sync_job_items, proc, lastExport >>

NextDiff == CompareHashes

SpecDiff == InitDiff /\ [][NextDiff]_vars

(***************************************************************************)
(* Storage and ledger failures.                                            *)
(***************************************************************************)
\* The error a rejected fs or ledger promise carries.
StorageError == "EIO: i/o error"

\* The await of request p rejects: nothing in runCsvSync, writeCsvWithDiff or
\* exportEmployeesCsvDiff catches, so the error reaches the caller.
Throw(p) ==
  [proc EXCEPT ![p].pc = "threw",
               ![p].result = [kind |-> "throw", message |-> StorageError]]

\* fs.mkdir rejects.
MkdirFails(p) ==
  /\ proc[p].pc = "mkdir"
  /\ proc' = Throw(p)
  /\ UNCHANGED << csv, diffCase, http, DEFAULT_INDEX, indexJson, csvFiles, now, sync_jobs,
                  sync_job_items, lastExport >>

\* fs.writeFile of the artifact rejects; no artifact is recorded.
WriteCsvFails(p) ==
  /\ proc[p].pc = "writeCsv"
  /\ proc' = Throw(p)
  /\ UNCHANGED << csv, diffCase, http, DEFAULT_INDEX, indexJson, csvFiles, now, sync_jobs,
                  sync_job_items, lastExport >>

\* fs.writeFile of index.json rejects: either before the file was opened, the
\* old content staying, or after, the file left truncated.
WriteIndexFails(p) ==
  /\ proc[p].pc = "writeIndex"
  /\ \E left \in { indexJson[proc[p].w.baseDir], Truncated } :
       indexJson' = [indexJson EXCEPT ![proc[p].w.baseDir] = left]
  /\ proc' = Throw(p)
  /\ UNCHANGED << csv, diffCase, http, DEFAULT_INDEX, csvFiles, now, sync_jobs, sync_job_items,
                  lastExport >>

\* addSyncJobItem rejects inside the loop over the settled attempts.
RecordItemFails(p) ==
  /\ proc[p].pc = "recordItems"
  /\ proc[p].i <= Len(proc[p].settled)
  /\ proc' = Throw(p)
  /\ UNCHANGED << csv, diffCase, http, DEFAULT_INDEX, indexJson, csvFiles, now, sync_jobs,
                  sync_job_items, lastExport >>

Fault(p) ==
  \/ MkdirFails(p)
  \/ WriteCsvFails(p)
  \/ WriteIndexFails(p)
  \/ RecordItemFails(p)

\* The month's list of a request of the failure specification: one submission.
FaultInputs(ym) ==
  { submissions \in SubmissionInputs(ym) : Len(submissions) = 1 }

\* The model stops starting exports into a directory that holds MaxVersion
\* artifact files.
HasRoom(d) == Len(csvFiles[d]) < MaxVersion

StartFaults(p) ==
  \/ \E m \in Months, triggerType \in TriggerTypes :
       \E submissions \in FaultInputs(YearMonth(m)) :
         /\ HasRoom(MonthDir(YearMonth(m)))
         /\ HasRoom(EmployeesDir)
         /\ CallRunCsvSync(p, m, submissions, triggerType)
  \/ /\ HasRoom(EmployeesDir)
     /\ CallExportEmployees(p)

\* Requests served one after the other, any await of storage or of the item
\* ledger may reject.
NextFaults == StartFaults(1) \/ Step(1) \/ Fault(1)

\* A request in flight is resumed when its await settles.
SpecFaults == Init /\ [][NextFaults]_vars /\ WF_vars(Step(1))

(***************************************************************************)
(* The route handlers that export after a data change.                     *)
(***************************************************************************)
PostSubmission == "POST /api/v1/shift-submissions"
PatchSubmission == "PATCH /api/v1/admin/shift-submissions/by-id/:id"
PostEmployee == "POST /api/v1/admin/employees"
PatchEmployee == "PATCH /api/v1/admin/employees/:id"
EmployeeLogin == "POST /api/v1/auth/employee-login"

Handlers == { PostSubmission, PatchSubmission, PostEmployee, PatchEmployee, EmployeeLogin }

\* The response of a handler whose data change did not go through: a
\* duplicate submission or employee code (409), no such submission or
\* employee (404).
RejectedStatus(h) == IF h \in { PostSubmission, PostEmployee } THEN 409 ELSE 404

\* The response of a handler whose data change was committed, once its
\* export call has settled with `result`.  POST /shift-submissions and the two
\* PATCH handlers catch what the export throws; POST /employees and
\* employee-login run the export inside the try block of the data change.
HandlerStatus(h, result) ==
  CASE h = PostSubmission -> 201
    [] h = PatchSubmission -> 200
    [] h = PatchEmployee -> 200
    [] h = PostEmployee -> IF result.kind = "throw" THEN 409 ELSE 201
    [] h = EmployeeLogin ->
         IF result.kind # "throw" THEN 200
         ELSE IF result.message = "EMPLOYEE_NOT_FOUND" THEN 404
         ELSE IF result.message = "EMAIL_ALREADY_IN_USE" THEN 409
         ELSE 500

\* The model receives a request only while its export can still be started,
\* and a request of a submission handler only while the job ledger is empty.
CanHandle(h) ==
  /\ HasRoom(EmployeesDir)
  /\ CanExport(EmployeesDir)
  /\ h \in { PostSubmission, PatchSubmission } =>
       /\ Len(sync_jobs) = 0
       /\ \A m \in Months : CanExport(MonthDir(YearMonth(m)))

\* A request arrives when none is being handled; its data change is
\* committed, or it is rejected and the handler responds at once.
ReceiveRequest(h) ==
  /\ proc[1].pc = "idle"
  /\ http = NoRequest
  /\ CanHandle(h)
  /\ \/ http' = [handler |-> h, committed |-> TRUE, status |-> 0]
     \/ http' = [handler |-> h, committed |-> FALSE, status |-> RejectedStatus(h)]
  /\ UNCHANGED << csv, diffCase, DEFAULT_INDEX, indexJson, csvFiles, now, sync_jobs,
                  sync_job_items, proc, lastExport >>

\* After the commit the handler calls runCsvSync with the month's list, which
\* holds the submission just written, or exportEmployeesCsvDiff.
StartExport(p) ==
  /\ http.committed
  /\ http.status = 0
  /\ IF http.handler \in { PostSubmission, PatchSubmission }
       THEN \E m \in Months, triggerType \in TriggerTypes :
              \E submissions \in FaultInputs(YearMonth(m)) :
                CallRunCsvSync(p, m, submissions, triggerType)
       ELSE CallExportEmployees(p)

\* The export call settled: the handler sends its response.
HandlerResponds(p) ==
  /\ proc[p].pc \in {"returned", "threw"}
  /\ http' = [http EXCEPT !.status = HandlerStatus(http.handler, proc[p].result)]
  /\ proc' = [proc EXCEPT ![p] = IdleProc]
  /\ UNCHANGED << csv, diffCase, DEFAULT_INDEX, indexJson, csvFiles, now, sync_jobs,
                  sync_job_items, lastExport >>

\* The response was sent: the request is over.
RequestDone ==
  /\ http.status # 0
  /\ http' = NoRequest
  /\ UNCHANGED << csv, diffCase, DEFAULT_INDEX, indexJson, csvFiles, now, sync_jobs,
                  sync_job_items, proc, lastExport >>

\* Requests handled one after the other; any await of storage or of the item
\* ledger inside the export may reject.
NextHandlers ==
  \/ \E h \in Handlers : ReceiveRequest(h)
  \/ StartExport(1)
  \/ Run(1)
  \/ Fault(1)
  \/ HandlerResponds(1)
  \/ RequestDone

SpecHandlers == Init /\ [][NextHandlers]_vars

(***************************************************************************)
(* Properties.                                                             *)
(***************************************************************************)
\* A writeCsvWithDiff call of request p has just returned.
WriterReturned(p) == proc[p].pc = "wReturn"

\* C1  No-op idempotence: a writeCsvWithDiff call given the same rows as the
\* previous call on the same dataset returns changed = false, leaves
\* latestVersion and index.json as they were, issues no index write and
\* writes no artifact file.
C1_NoOpIdempotence ==
  \A p \in Procs :
    WriterReturned(p) =>
      LET w == proc[p].w
          last == lastExport[w.baseDir]
      IN (last.called /\ last.rows = w.rows) =>
           /\ w.ret.changed = FALSE
           /\ indexJson[w.baseDir] = last.json
           /\ LatestVersion(w.baseDir) = last.json.latestVersion
           /\ w.json = NoFile
           /\ Len(csvFiles[w.baseDir]) = last.written

C1_Witness ==
  \E p \in Procs :
    /\ WriterReturned(p)
    /\ lastExport[proc[p].w.baseDir].called
    /\ lastExport[proc[p].w.baseDir].rows = proc[p].w.rows
    /\ lastExport[proc[p].w.baseDir].ret.changed
    /\ Len(proc[p].w.rows) > 0
    /\ ~ proc[p].w.ret.changed

\* C2  Monotonic versioning: the versions recorded in a dataset's persisted
\* index are exactly 1..latestVersion in order, and as many artifact files
\* were written for it.
C2_MonotonicVersioning ==
  \A d \in Datasets :
    indexJson[d].exists =>
      /\ Len(indexJson[d].files) = indexJson[d].latestVersion
      /\ \A k \in 1..Len(indexJson[d].files) : indexJson[d].files[k].version = k
      /\ Len(csvFiles[d]) = indexJson[d].latestVersion

\* C3  Loading the index of a dataset that was never persisted gives the
\* zero-value index, in every reachable state.
C3_ZeroValueIndex ==
  \A d \in Datasets :
    ~ indexJson[d].exists =>
      LET index == readIndex(indexJson[d])
      IN /\ index.latestVersion = 0
         /\ index.latestFilePath = Null
         /\ index.rowHashes = <<>>
         /\ Files(index) = <<>>

\* C4  First-run forcing: an export of a dataset with no index reports
\* changed = true and creates version 1 whatever the rows; a further export
\* of the same empty row set reports changed = false.
C4_FirstRunForcing ==
  \A p \in Procs :
    WriterReturned(p) =>
      LET w == proc[p].w
          last == lastExport[w.baseDir]
      IN /\ w.index.shared =>
              /\ w.ret.changed
              /\ w.ret.artifact # NullRef
              /\ w.ret.artifact.version = 1
              /\ LatestVersion(w.baseDir) = 1
              /\ Len(csvFiles[w.baseDir]) > 0
              /\ csvFiles[w.baseDir][Len(csvFiles[w.baseDir])].filePath
                   = w.ret.artifact.filePath
         /\ (last.called /\ last.first /\ last.rows = <<>> /\ w.rows = <<>>) =>
              ~ w.ret.changed

C4_Witness ==
  \E p \in Procs :
    /\ WriterReturned(p)
    /\ lastExport[proc[p].w.baseDir].called
    /\ lastExport[proc[p].w.baseDir].first
    /\ lastExport[proc[p].w.baseDir].ret.changed
    /\ lastExport[proc[p].w.baseDir].ret.artifact.version = 1
    /\ lastExport[proc[p].w.baseDir].ret.diff = NoDiff
    /\ lastExport[proc[p].w.baseDir].rows = <<>>
    /\ proc[p].w.rows = <<>>
    /\ ~ proc[p].w.ret.changed

\* Row sets a and b have the same keys in the same places and differ in the
\* time_range of exactly one row and in nothing else.
OnlyOneMemoDiffers(a, b) ==
  /\ Len(a) = Len(b)
  /\ \A k \in 1..Len(a) : "time_range" \in DOMAIN a[k] /\ "time_range" \in DOMAIN b[k]
  /\ \E k \in 1..Len(a) :
       /\ a[k].time_range # b[k].time_range
       /\ [a[k] EXCEPT !.time_range = b[k].time_range] = b[k]
       /\ \A j \in 1..Len(a) : j # k => a[j] = b[j]

\* C5  Change detection granularity: when exactly one row's time_range
\* differs from the last exported row set and no row is added or removed,
\* the export reports updated = 1, inserted = 0, deleted = 0, changed = true
\* and writes a new artifact with version latestVersion + 1.
C5_MemoChangeDetected ==
  \A p \in Procs :
    WriterReturned(p) =>
      LET w == proc[p].w
          last == lastExport[w.baseDir]
      IN (last.called /\ OnlyOneMemoDiffers(last.rows, w.rows)) =>
           /\ w.ret.diff = [inserted |-> 0, updated |-> 1, deleted |-> 0]
           /\ w.ret.changed
           /\ w.ret.artifact.version = last.json.latestVersion + 1
           /\ LatestVersion(w.baseDir) = last.json.latestVersion + 1
           /\ Len(csvFiles[w.baseDir]) = last.written + 1
           /\ csvFiles[w.baseDir][Len(csvFiles[w.baseDir])].content
                = rowsToCsv(w.headers, w.rows)

C5_Witness ==
  \E p \in Procs :
    /\ WriterReturned(p)
    /\ lastExport[proc[p].w.baseDir].called
    /\ OnlyOneMemoDiffers(lastExport[proc[p].w.baseDir].rows, proc[p].w.rows)
    /\ Len(proc[p].w.rows) > 1
    /\ proc[p].w.ret.diff.updated = 1
    /\ proc[p].w.ret.artifact.version = 2

\* The items recorded for job id.
ItemsOf(id) == { x \in sync_job_items : x.syncJobId = id }

\* C6  The terminal status of a completed run, persisted and returned, is
\* "failed" exactly when an item of the run was recorded as failed, and
\* "success" otherwise.
C6_StatusIffFailedItem ==
  \A p \in Procs :
    (proc[p].op = "runCsvSync" /\ proc[p].pc = "returned") =>
      LET failed == \E x \in ItemsOf(proc[p].jobId) : x.status = "failed"
      IN /\ proc[p].result.job.status = (IF failed THEN "failed" ELSE "success")
         /\ sync_jobs[proc[p].jobId].status = proc[p].result.job.status
         /\ sync_jobs[proc[p].jobId].finished

C6_Witness ==
  \E p \in Procs :
    /\ proc[p].op = "runCsvSync"
    /\ proc[p].pc = "returned"
    /\ proc[p].result.job.status = "failed"
    /\ sync_jobs[proc[p].jobId].status = "failed"
    /\ ~ proc[p].result.artifact.changed
    /\ \E x \in ItemsOf(proc[p].jobId) : x.status = "failed"

\* The inputs of request p whose projection succeeds / fails.
Projectable(p) ==
  { k \in 1..Len(proc[p].submissions) : Len(proc[p].submissions[k].details) > 0 }
Unprojectable(p) ==
  { k \in 1..Len(proc[p].submissions) : Len(proc[p].submissions[k].details) = 0 }

\* (submission id, target date) of every detail line of the projectable inputs.
ExistingLines(p) ==
  UNION { { << proc[p].submissions[k].id, proc[p].submissions[k].details[j].targetDate >> :
              j \in 1..Len(proc[p].submissions[k].details) } :
          k \in Projectable(p) }

\* Request p is inside the month's writeCsvWithDiff call of runCsvSync.
InSubmissionsExport(p) ==
  /\ proc[p].op = "runCsvSync"
  /\ proc[p].pc \in {"mkdir", "readIndex", "writeCsv", "writeIndex", "wReturn"}
  /\ proc[p].w.baseDir # EmployeesDir

\* C7  Partial failure isolation: every attempt settles, the rows handed to
\* the month's export are one per detail line of the submissions whose
\* projection succeeded and none of a failed one, each input has its item,
\* and the run ends failed with the failed and successful items counted.
C7_PartialFailureIsolation ==
  \A p \in Procs :
    /\ InSubmissionsExport(p) =>
         /\ \A k \in 1..Len(proc[p].submissions) :
              /\ proc[p].settled[k].status =
                   (IF k \in Projectable(p) THEN "fulfilled" ELSE "rejected")
              /\ \E x \in ItemsOf(proc[p].jobId) :
                   /\ x.shiftSubmissionId = proc[p].submissions[k].id
                   /\ x.status = (IF k \in Projectable(p) THEN "success" ELSE "failed")
         /\ { << proc[p].w.rows[n].submission_id, proc[p].w.rows[n].target_date >> :
                n \in 1..Len(proc[p].w.rows) } = ExistingLines(p)
         /\ Len(proc[p].w.rows) = Cardinality(ExistingLines(p))
    /\ (proc[p].op = "runCsvSync" /\ proc[p].pc = "returned") =>
         /\ proc[p].result.summary.failed = Cardinality(Unprojectable(p))
         /\ proc[p].result.summary.success = Cardinality(Projectable(p))
         /\ Cardinality({ x \in ItemsOf(proc[p].jobId) : x.status = "failed" })
              = Cardinality(Unprojectable(p))
         /\ Cardinality({ x \in ItemsOf(proc[p].jobId) : x.status = "success" })
              = Cardinality(Projectable(p))
         /\ (Unprojectable(p) # {} => proc[p].result.job.status = "failed")

C7_Witness ==
  \E p \in Procs :
    /\ InSubmissionsExport(p)
    /\ proc[p].pc = "wReturn"
    /\ Unprojectable(p) # {}
    /\ Projectable(p) # {}
    /\ proc[p].failedCount = 1
    /\ Len(proc[p].w.rows) = 2
    /\ proc[p].w.ret.changed
    /\ csvFiles[proc[p].w.baseDir][Len(csvFiles[proc[p].w.baseDir])].content
         = rowsToCsv(SubmissionHeaders, proc[p].w.rows)

\* C8  Deterministic row ordering: whatever the order in which the attempts
\* settled, the rows handed to the month's export are in strictly ascending
\* order of their key strings.
C8_RowsSortedByKey ==
  \A p \in Procs :
    InSubmissionsExport(p) =>
      /\ \A a, b \in 1..Len(proc[p].w.rows) :
           a < b => KeyBefore(proc[p].w.rows[a], proc[p].w.rows[b])
      /\ proc[p].w.rows = proc[p].csvRows

C8_Witness ==
  \E p \in Procs :
    /\ InSubmissionsExport(p)
    /\ Len(proc[p].submissions) = 2
    /\ proc[p].settleOrder = << 2, 1 >>
    /\ Len(proc[p].w.rows) = 4
    /\ proc[p].w.rows[1].submission_id = 10
    /\ proc[p].w.rows[4].submission_id = 9

\* Request p is between the resolution of readIndex and the resolution of the
\* index.json write of a writeCsvWithDiff call.
InCriticalSection(p) == proc[p].pc \in {"writeCsv", "writeIndex"}

\* C9  Critical section: at any time at most one writeCsvWithDiff call per
\* dataset directory is between its readIndex and its index.json write,
\* whatever the interleaving of the requests that trigger exports.
C9_CriticalSection ==
  \A p, q \in Procs :
    (p # q /\ InCriticalSection(p) /\ InCriticalSection(q)) =>
      proc[p].w.baseDir # proc[q].w.baseDir

\* What runCsvSync can change outside the request itself.
Effects == << DEFAULT_INDEX, indexJson, csvFiles, sync_jobs, sync_job_items >>

\* C10  runCsvSync called with no submissions throws at once and changes
\* nothing: no job, no item, no artifact, no index read or written.
C10_EmptyInputRejected ==
  [][ \A p \in Procs :
        /\ ( /\ proc[p].pc = "idle"
             /\ proc'[p].op = "runCsvSync"
             /\ Len(proc'[p].submissions) = 0 )
           => ( /\ proc'[p].pc = "threw"
                /\ proc'[p].result.kind = "throw"
                /\ UNCHANGED Effects )
        /\ proc[p].pc = "threw"
           => ( /\ proc'[p].pc = "idle"
                /\ UNCHANGED Effects ) ]_vars

C10_Witness ==
  \E p \in Procs :
    /\ proc[p].op = "runCsvSync"
    /\ proc[p].pc = "threw"
    /\ Len(proc[p].submissions) = 0
    /\ proc[p].jobId = 0

TerminalStatuses == {"success", "failed"}

\* Job j exists and has a terminal status.
Terminated(j) == Len(sync_jobs) >= j /\ sync_jobs[j].status \in TerminalStatuses

\* C12  Every job runCsvSync creates starts as "running" and eventually has
\* the status "success" or "failed", also when an await after its creation
\* rejects; a terminal status never changes.
C12_RunsTerminate ==
  /\ \A j \in 1..MaxJobs : (Len(sync_jobs) >= j) ~> Terminated(j)
  /\ [][ /\ Len(sync_jobs') > Len(sync_jobs)
              => sync_jobs'[Len(sync_jobs')].status = "running"
         /\ \A j \in 1..Len(sync_jobs) :
              Terminated(j) => sync_jobs'[j].status = sync_jobs[j].status ]_vars

\* The run of request p ended because an await inside the export of the
\* month's dataset / of the roster rejected.
MonthExportRaised(p) ==
  /\ proc[p].op = "runCsvSync"
  /\ proc[p].pc = "threw"
  /\ proc[p].result.message = StorageError
  /\ proc[p].w.baseDir \in { MonthDir(YearMonth(m)) : m \in Months }
RosterExportRaised(p) ==
  /\ proc[p].op = "runCsvSync"
  /\ proc[p].pc = "threw"
  /\ proc[p].result.message = StorageError
  /\ proc[p].w.baseDir = EmployeesDir

\* C13  A storage failure in one dataset's export is fatal for that dataset
\* only: a run whose month export raised has still performed the roster
\* export, and a run whose roster export raised still reports the outcome of
\* its month export.
C13_ExportFailureIsolated ==
  \A p \in Procs :
    /\ MonthExportRaised(p) =>
         /\ proc[p].employeesExport # NoExport
         /\ lastExport[EmployeesDir].called
    /\ RosterExportRaised(p) =>
         /\ "summary" \in DOMAIN proc[p].result
         /\ proc[p].result.summary.submissionDiff = proc[p].submissionsExport.diff
         /\ proc[p].result.artifact.submissionsCsv = proc[p].submissionsExport.artifact

\* C14  After a completed run over n input records the job owns exactly n
\* items, one per record, "success" exactly when the record's attempt
\* fulfilled and "failed", with the captured non-empty message, exactly when
\* it rejected.
C14_OneItemPerAttempt ==
  \A p \in Procs :
    (proc[p].op = "runCsvSync" /\ proc[p].pc = "returned") =>
      /\ Cardinality(ItemsOf(proc[p].jobId)) = Len(proc[p].submissions)
      /\ \A k \in 1..Len(proc[p].submissions) :
           LET mine == { x \in ItemsOf(proc[p].jobId) :
                           x.shiftSubmissionId = proc[p].submissions[k].id }
           IN /\ Cardinality(mine) = 1
              /\ \A x \in mine :
                   /\ x.status = "success" <=> proc[p].settled[k].status = "fulfilled"
                   /\ x.status = "failed" <=> proc[p].settled[k].status = "rejected"
                   /\ x.status = "failed" =>
                        /\ x.errorMessage # Null
                        /\ Len(x.errorMessage) > 0
                        /\ x.errorMessage = proc[p].settled[k].reason
                   /\ x.status = "success" => x.errorMessage = Null

C14_Witness ==
  \E p \in Procs :
    /\ proc[p].op = "runCsvSync"
    /\ proc[p].pc = "returned"
    /\ Len(proc[p].submissions) = 2
    /\ Cardinality(ItemsOf(proc[p].jobId)) = 2
    /\ proc[p].jobId = 2
    /\ \E x, y \in ItemsOf(proc[p].jobId) :
         /\ x.status = "success"
         /\ y.status = "failed"
         /\ y.errorMessage = "details is empty"

\* Mon, "AM" only as it must be written: "Mon, ""AM"" only"
ExampleEscaped ==
  << Quote, "M", "o", "n", Comma, " ", Quote, Quote, "A", "M", Quote, Quote,
     " ", "o", "n", "l", "y", Quote >>

\* C15  Escaping round-trip: csvEscape emits a value verbatim when it holds
\* no comma, quote, CR or LF and otherwise wraps it in quotes with every
\* inner quote doubled, and a conformant reader of the written line recovers
\* the original values; Mon, "AM" only is written as "Mon, ""AM"" only".
C15_EscapeRoundTrip ==
  csv.written =>
    /\ \A k \in 1..Len(csv.row) :
         LET raw == csv.row[k]
             cell == csv.cells[k]
             special == { i \in 1..Len(raw) : raw[i] \in { Comma, Quote, CR, LF } }
             quotes == { i \in 1..Len(raw) : raw[i] = Quote }
         IN /\ special = {} => cell = raw
            /\ special # {} =>
                 /\ Len(cell) = Len(raw) + Cardinality(quotes) + 2
                 /\ cell[1] = Quote
                 /\ cell[Len(cell)] = Quote
                 /\ \A i \in 1..Len(raw) :
                      LET at == 1 + i + Cardinality({ q \in quotes : q < i })
                      IN /\ cell[at] = raw[i]
                         /\ raw[i] = Quote => cell[at + 1] = Quote
            /\ raw = ExampleMemo => cell = ExampleEscaped
    /\ ReadRecord(csv.text, 1, FALSE, <<>>, <<>>) = csv.row

C15_Witness ==
  /\ csv.written
  /\ csv.row[1] = ExampleMemo
  /\ csv.cells[1] = ExampleEscaped
  /\ ReadRecord(csv.text, 1, FALSE, <<>>, <<>>) = << ExampleMemo, <<>> >>

\* C16  An export that is not changed returns changed = false with the
\* dataset's existing latest artifact: the last history entry, whose path is
\* latestFilePath and whose version is latestVersion; no version is consumed
\* and nothing is written.  The returned artifact is null only when the
\* dataset has no artifact.
C16_UnchangedReturnsLatest ==
  \A p \in Procs :
    WriterReturned(p) =>
      LET w == proc[p].w
          index == indexJson[w.baseDir]
      IN /\ ~ w.ret.changed =>
              /\ index.exists
              /\ Len(index.files) > 0
              /\ w.ret.artifact # NullRef
              /\ w.ret.artifact.fileName = index.files[Len(index.files)].fileName
              /\ w.ret.artifact.filePath = index.files[Len(index.files)].filePath
              /\ w.ret.artifact.version = index.files[Len(index.files)].version
              /\ w.ret.artifact.filePath = index.latestFilePath
              /\ w.ret.artifact.version = index.latestVersion
              /\ index.latestVersion = w.index.latestVersion
              /\ \E k \in 1..Len(csvFiles[w.baseDir]) :
                   /\ csvFiles[w.baseDir][k].filePath = w.ret.artifact.filePath
                   /\ csvFiles[w.baseDir][k].version = w.ret.artifact.version
              /\ w.json = NoFile
              /\ w.version = 0
         /\ w.ret.artifact = NullRef => Len(csvFiles[w.baseDir]) = 0

C16_Witness ==
  \E p \in Procs :
    /\ WriterReturned(p)
    /\ ~ proc[p].w.ret.changed
    /\ proc[p].w.ret.diff = NoDiff
    /\ proc[p].w.ret.artifact # NullRef
    /\ proc[p].w.ret.artifact.version = 1
    /\ proc[p].w.ret.artifact.filePath = indexJson[proc[p].w.baseDir].latestFilePath
    /\ Len(indexJson[proc[p].w.baseDir].files) = 2

\* Request p is exporting a dataset whose index.json it found unreadable.
LoadedUnreadable(p) ==
  /\ proc[p].pc \in {"writeCsv", "writeIndex"}
  /\ indexJson[proc[p].w.baseDir] = Truncated

\* C17  An unreadable index.json is not fatal: the next export of the dataset
\* behaves as its first run (changed, every row inserted, version 1) and
\* persists a well-formed index whose history holds the new artifact only.
C17_UnreadableIndexStartsFresh ==
  \A p \in Procs :
    LoadedUnreadable(p) =>
      LET w == proc[p].w
      IN /\ w.changed
         /\ w.version = 1
         /\ w.diff = [inserted |-> Len(w.rows), updated |-> 0, deleted |-> 0]
         /\ proc[p].pc = "writeIndex" =>
              /\ w.json.exists
              /\ w.json.latestVersion = 1
              /\ w.json.latestFilePath = w.filePath
              /\ w.json.rowHashes = makeRowHashes(w.rows)
              /\ Len(w.json.files) = 1
              /\ w.json.files[1].version = 1
              /\ w.json.files[1].filePath = w.filePath

\* C18  Artifact identity: within a dataset every artifact written has a
\* version greater than that of every artifact written before it, so no two
\* share a version, and no write goes to the path of an existing artifact.
C18_ArtifactIdentity ==
  \A d \in Datasets :
    \A i, j \in 1..Len(csvFiles[d]) :
      i < j =>
        /\ csvFiles[d][i].version < csvFiles[d][j].version
        /\ csvFiles[d][i].filePath # csvFiles[d][j].filePath

\* C19  index.json is overwritten atomically: at every point in time, also
\* when a save fails, the persisted file is a complete index, the previous
\* one or the new one, each with latestVersion, latestFilePath, rowHashes and
\* files of one export.
C19_IndexWrittenAtomically ==
  \A d \in Datasets :
    indexJson[d].exists =>
      /\ indexJson[d] # Truncated
      /\ DOMAIN indexJson[d] =
           {"exists", "latestVersion", "latestFilePath", "rowHashes", "files"}
      /\ Len(indexJson[d].files) > 0
      /\ indexJson[d].files[Len(indexJson[d].files)].filePath = indexJson[d].latestFilePath
      /\ indexJson[d].files[Len(indexJson[d].files)].version = indexJson[d].latestVersion
      /\ \E k \in 1..Len(csvFiles[d]) :
           /\ csvFiles[d][k].filePath = indexJson[d].latestFilePath
           /\ makeRowHashes(csvFiles[d][k].rows) = indexJson[d].rowHashes

\* C20  A run that completes, with failed items or not, returns the full
\* summary: total is the number of input records, failed and success the
\* numbers of failed and successful items, success + failed = total, and the
\* diffs of both datasets are those their exports returned.  runCsvSync
\* raises only for an empty input or a storage or ledger error, never for a
\* failed record.
C20_CompletedRunReturnsSummary ==
  \A p \in Procs :
    proc[p].op = "runCsvSync" =>
      /\ proc[p].pc = "returned" =>
           LET summary == proc[p].result.summary
               items == ItemsOf(proc[p].jobId)
           IN /\ proc[p].result.kind = "return"
              /\ summary.total = Len(proc[p].submissions)
              /\ summary.failed = Cardinality({ x \in items : x.status = "failed" })
              /\ summary.success = Cardinality({ x \in items : x.status = "success" })
              /\ summary.success + summary.failed = summary.total
              /\ summary.submissionDiff
                   = lastExport[MonthDir(YearMonth(proc[p].yearMonth))].ret.diff
              /\ summary.employeeDiff = lastExport[EmployeesDir].ret.diff
      /\ proc[p].pc = "threw" =>
           \/ Len(proc[p].submissions) = 0
           \/ proc[p].result.message = StorageError
      /\ (proc[p].pc = "threw" /\ proc[p].failedCount > 0) =>
           proc[p].result.message = StorageError

C20_Witness ==
  \E p \in Procs :
    /\ proc[p].op = "runCsvSync"
    /\ proc[p].pc = "returned"
    /\ proc[p].result.job.status = "failed"
    /\ proc[p].result.summary.total = 2
    /\ proc[p].result.summary.failed = 2
    /\ proc[p].result.summary.success = 0
    /\ proc[p].result.summary.submissionDiff = NoDiff
    /\ proc[p].result.summary.employeeDiff.inserted = 3

\* The run of request p got past the precondition and is over: runCsvSync
\* returned or raised.
RunEnded(p) ==
  /\ proc[p].op = "runCsvSync"
  /\ Precondition(proc[p].submissions)
  /\ proc[p].pc \in {"returned", "threw"}

\* C21  Every run that gets past the precondition calls the export of the
\* month's dataset first and then, always, the export of the roster; the
\* combined changed flag it returns is true exactly when one of the two
\* exports reported changed = true.
C21_BothExportsInOrder ==
  \A p \in Procs :
    /\ RunEnded(p) =>
         /\ proc[p].w # NoWriter
         /\ proc[p].w.baseDir = EmployeesDir
    /\ (proc[p].op = "runCsvSync" /\ proc[p].w.baseDir = EmployeesDir) =>
         /\ proc[p].submissionsExport # NoExport
         /\ lastExport[MonthDir(YearMonth(proc[p].yearMonth))].called
    /\ (proc[p].op = "runCsvSync" /\ proc[p].pc = "returned") =>
         proc[p].result.artifact.changed
           = ( \/ lastExport[MonthDir(YearMonth(proc[p].yearMonth))].ret.changed
               \/ lastExport[EmployeesDir].ret.changed )

\* An attempt of request p has not settled yet.
AttemptPending(p) ==
  \E k \in 1..Len(proc[p].settled) : proc[p].settled[k].status = "pending"

\* C22  Fixed barrier: while an attempt of a run is pending the run waits;
\* no item of its job is recorded, no row is aggregated, no failure counted
\* and no export started, also when another attempt has already rejected.
\* Once the run is past the barrier every attempt has settled.
C22_FixedBarrier ==
  \A p \in Procs :
    proc[p].op = "runCsvSync" =>
      /\ AttemptPending(p) =>
           /\ proc[p].pc = "allSettled"
           /\ ItemsOf(proc[p].jobId) = {}
           /\ proc[p].csvRows = <<>>
           /\ proc[p].failedCount = 0
           /\ proc[p].w = NoWriter
      /\ ( \/ ItemsOf(proc[p].jobId) # {}
           \/ proc[p].csvRows # <<>>
           \/ proc[p].w # NoWriter ) =>
           /\ Len(proc[p].settleOrder) = Len(proc[p].submissions)
           /\ \A k \in 1..Len(proc[p].submissions) :
                proc[p].settled[k].status \in {"fulfilled", "rejected"}

C22_Witness ==
  \E p \in Procs :
    /\ proc[p].op = "runCsvSync"
    /\ proc[p].pc = "allSettled"
    /\ Len(proc[p].submissions) = 2
    /\ proc[p].settleOrder = << 2 >>
    /\ proc[p].settled[2].status = "rejected"
    /\ proc[p].settled[1].status = "pending"
    /\ proc[p].jobId = 2
    /\ sync_job_items # {}
    /\ ItemsOf(proc[p].jobId) = {}

\* The persisted index of dataset d has a history entry for the artifact.
Recorded(d, artifact) ==
  /\ Readable(indexJson[d])
  /\ \E k \in 1..Len(indexJson[d].files) :
       /\ indexJson[d].files[k].filePath = artifact.filePath
       /\ indexJson[d].files[k].version = artifact.version

\* The artifact file was written into the directory of dataset d.
Written(d, artifact) ==
  \E k \in 1..Len(csvFiles[d]) : csvFiles[d][k].filePath = artifact.filePath

\* C23  Ordering: an index is saved only after the artifact file it points
\* to was written; writeCsvWithDiff returns changed = true only after its
\* index save; a job is terminal only after both exports of its run have
\* returned; hence when a job is seen as success or failed the indexes of
\* both datasets record every artifact its run wrote.
C23_DurableBeforeReported ==
  /\ \A d \in Datasets :
       Readable(indexJson[d]) =>
         Written(d, [filePath |-> indexJson[d].latestFilePath])
  /\ \A p \in Procs :
       /\ (WriterReturned(p) /\ proc[p].w.ret.changed) =>
            /\ proc[p].w.json # NoFile
            /\ Written(proc[p].w.baseDir, proc[p].w.ret.artifact)
       /\ (proc[p].op = "runCsvSync" /\ proc[p].jobId > 0 /\ Terminated(proc[p].jobId)) =>
            /\ proc[p].submissionsExport # NoExport
            /\ proc[p].employeesExport # NoExport
            /\ proc[p].submissionsExport.changed =>
                 Recorded(MonthDir(YearMonth(proc[p].yearMonth)),
                          proc[p].submissionsExport.artifact)
            /\ proc[p].employeesExport.changed =>
                 Recorded(EmployeesDir, proc[p].employeesExport.artifact)

\* C24  The counts of calcDiff are those of the set-theoretic reference for
\* every pair of maps: inserted the keys of `after` not in `before`, deleted
\* the keys of `before` not in `after`, updated the keys of both whose values
\* differ, a key of both with equal values counted nowhere; and changed is
\* true exactly when a count is positive or the dataset has no artifact yet.
C24_DiffMatchesReference ==
  diffCase.done =>
    LET before == diffCase.before
        after == diffCase.after
        common == DOMAIN before \cap DOMAIN after
        equal == { k \in common : before[k] = after[k] }
        diff == diffCase.diff
    IN /\ diff.inserted = Cardinality(DOMAIN after \ DOMAIN before)
       /\ diff.deleted = Cardinality(DOMAIN before \ DOMAIN after)
       /\ diff.updated = Cardinality(common \ equal)
       /\ diff.inserted + diff.updated + diff.deleted + Cardinality(equal)
            = Cardinality(DOMAIN before \cup DOMAIN after)
       /\ diffCase.changed
            <=> ( \/ diff.inserted + diff.updated + diff.deleted > 0
                  \/ diffCase.latestFilePath = Null )
       /\ (before = after /\ diffCase.latestFilePath # Null) => ~ diffCase.changed

C24_Witness ==
  /\ diffCase.done
  /\ diffCase.latestFilePath # Null
  /\ diffCase.before = [ k \in {"1", "2"} |-> "x" ]
  /\ diffCase.after = [ k \in {"2", "3"} |-> IF k = "2" THEN "y" ELSE "x" ]
  /\ diffCase.diff = [inserted |-> 1, updated |-> 1, deleted |-> 1]
  /\ diffCase.changed

\* The history the persisted index of dataset d held when the previous
\* export of d returned; empty before the first export.
HistoryBefore(d) ==
  IF lastExport[d].called /\ Readable(lastExport[d].json)
    THEN lastExport[d].json.files ELSE <<>>

\* C25  History is append-only and the index is mutated once per changed
\* export: a changed export leaves every entry the history held in place and
\* appends exactly one entry, that of its artifact; an export that is not
\* changed leaves the persisted index as it was.
C25_HistoryAppendOnly ==
  \A p \in Procs :
    WriterReturned(p) =>
      LET w == proc[p].w
          d == w.baseDir
          before == HistoryBefore(d)
      IN /\ w.ret.changed =>
              /\ Readable(indexJson[d])
              /\ Len(indexJson[d].files) = Len(before) + 1
              /\ SubSeq(indexJson[d].files, 1, Len(before)) = before
              /\ indexJson[d].files[Len(indexJson[d].files)].filePath
                   = w.ret.artifact.filePath
              /\ indexJson[d].files[Len(indexJson[d].files)].version
                   = w.ret.artifact.version
         /\ ~ w.ret.changed =>
              /\ lastExport[d].called
              /\ indexJson[d] = lastExport[d].json

\* filePrefix of the exports of dataset d.
PrefixOf(d) ==
  IF d = EmployeesDir THEN EmployeesPrefix
  ELSE SubmissionsPrefix(CHOOSE m \in Months : MonthDir(YearMonth(m)) = d)

\* The history entry names a file of dataset d: one that was written into
\* the directory of d, under the name an export of d gives.
OwnEntry(d, entry) ==
  /\ Written(d, entry)
  /\ \E ts \in 0..MaxClock :
       /\ entry.fileName = FileName(PrefixOf(d), entry.version, ts)
       /\ entry.filePath = PathJoin(d, entry.fileName)

\* C26  Dataset isolation: every entry of the persisted history of a dataset
\* is an artifact written for that dataset, in its directory and with its
\* prefix, whichever dataset was exported first in the process.
C26_DatasetIsolation ==
  \A d \in Datasets :
    Readable(indexJson[d]) =>
      \A k \in 1..Len(indexJson[d].files) : OwnEntry(d, indexJson[d].files[k])

\* The index names its last history entry as the latest artifact.
LatestIsLast(index) ==
  /\ Len(index.files) > 0
  /\ index.latestFilePath = index.files[Len(index.files)].filePath
  /\ index.latestVersion = index.files[Len(index.files)].version

\* C27  Latest-pointer consistency: every index writeCsvWithDiff persists,
\* and every one it is about to persist, has a non-empty history whose last
\* entry carries latestFilePath and latestVersion; so an export that is not
\* changed returns the artifact the export before it returned, which is the
\* one the preceding changed export returned.
C27_LatestPointerConsistent ==
  /\ \A d \in Datasets : Readable(indexJson[d]) => LatestIsLast(indexJson[d])
  /\ \A p \in Procs :
       /\ proc[p].pc = "writeIndex" => LatestIsLast(proc[p].w.json)
       /\ (WriterReturned(p) /\ ~ proc[p].w.ret.changed) =>
            /\ lastExport[proc[p].w.baseDir].called
            /\ proc[p].w.ret.artifact = lastExport[proc[p].w.baseDir].ret.artifact

C27_Witness ==
  \E p \in Procs :
    /\ WriterReturned(p)
    /\ ~ proc[p].w.ret.changed
    /\ Len(proc[p].w.rows) = 4
    /\ lastExport[proc[p].w.baseDir].called
    /\ lastExport[proc[p].w.baseDir].ret.changed
    /\ lastExport[proc[p].w.baseDir].ret.artifact.version = 1
    /\ proc[p].w.ret.artifact = lastExport[proc[p].w.baseDir].ret.artifact
    /\ LatestIsLast(indexJson[proc[p].w.baseDir])

\* Request p is inside a runCsvSync call.
RunInFlight(p) == proc[p].op = "runCsvSync" /\ proc[p].pc # "idle"

\* The callers let at most one runCsvSync per yearMonth be in flight.
SerializedPerMonth ==
  \A p, q \in Procs :
    (p # q /\ RunInFlight(p) /\ RunInFlight(q)) =>
      proc[p].yearMonth # proc[q].yearMonth

\* Request p is inside the load-index / write-file / save-index sequence of
\* a writeCsvWithDiff call.
InExportSequence(p) == proc[p].pc \in {"readIndex", "writeCsv", "writeIndex"}

\* C28  When runs are serialized per month no dataset has two overlapping
\* load-index / write-file / save-index sequences; in particular the roster,
\* which every run and the employee handlers export, is never exported by
\* two invocations at once.
C28_NoOverlapWhenSerializedPerMonth ==
  SerializedPerMonth =>
    \A p, q \in Procs :
      (p # q /\ InExportSequence(p) /\ InExportSequence(q)) =>
        proc[p].w.baseDir # proc[q].w.baseDir

\* The ids of the submissions of request p whose projection fails.
FailedIds(p) == { proc[p].submissions[k].id : k \in Unprojectable(p) }

\* The rows of the previous export of the dataset that belong to a
\* submission whose projection now fails.
LostRows(p, d) ==
  IF lastExport[d].called
    THEN { n \in 1..Len(lastExport[d].rows) :
             lastExport[d].rows[n].submission_id \in FailedIds(p) }
    ELSE {}

\* C29  The rows of a submission whose projection fails are left out of the
\* run's row set; when the latest artifact of the month holds rows of it the
\* export counts each of them as deleted, reports changed = true and writes
\* the next version without them, and the job of the run ends "failed".
C29_FailedRecordDeletesRows ==
  \A p \in Procs :
    /\ (InSubmissionsExport(p) /\ WriterReturned(p)) =>
         LET w == proc[p].w
             d == w.baseDir
             lost == LostRows(p, d)
             gone == IF lastExport[d].called
                       THEN DOMAIN lastExport[d].json.rowHashes \ DOMAIN w.rowHashes
                       ELSE {}
         IN /\ \A n \in 1..Len(w.rows) : w.rows[n].submission_id \notin FailedIds(p)
            /\ lost # {} =>
                 /\ \A n \in lost : keyFn(lastExport[d].rows[n]) \in gone
                 /\ w.ret.diff.deleted = Cardinality(gone)
                 /\ w.ret.diff.deleted >= Cardinality(lost)
                 /\ w.ret.changed
                 /\ w.ret.artifact.version = lastExport[d].json.latestVersion + 1
                 /\ LatestVersion(d) = w.ret.artifact.version
                 /\ Len(csvFiles[d]) = lastExport[d].written + 1
                 /\ csvFiles[d][Len(csvFiles[d])].filePath = w.ret.artifact.filePath
                 /\ csvFiles[d][Len(csvFiles[d])].rows = w.rows
    /\ (proc[p].op = "runCsvSync" /\ proc[p].pc = "returned" /\ FailedIds(p) # {}) =>
         /\ proc[p].result.job.status = "failed"
         /\ sync_jobs[proc[p].jobId].status = "failed"

C29_Witness ==
  \E p \in Procs :
    /\ proc[p].op = "runCsvSync"
    /\ proc[p].pc = "returned"
    /\ FailedIds(p) = {FirstSubId}
    /\ sync_jobs[proc[p].jobId].status = "failed"
    /\ proc[p].submissionsExport.changed
    /\ proc[p].submissionsExport.diff = [inserted |-> 0, updated |-> 0, deleted |-> 2]
    /\ proc[p].submissionsExport.artifact.version = 2
    /\ LatestVersion(MonthDir(YearMonth(proc[p].yearMonth))) = 2

\* C30  Every handler that exports after committing a data change reports
\* success for the change when it was committed, also when the export that
\* follows raises.
C30_CommittedChangeReportsSuccess ==
  (http.committed /\ http.status # 0) => http.status \in {200, 201}

====
